---- MODULE Spec2Model ----
(***************************************************************************)
(* Model of linearizer/transform.py: the BaseTransformer contract          *)
(* (set_params, transform, get_params, validate_input, __call__), the      *)
(* variant classes with their class-level attributes, and the power        *)
(* family's generalized kernel.                                            *)
(*                                                                         *)
(* Numbers.  A value is an exact polynomial in eps (the literal 1e-15 of   *)
(* _Power.__call__) with integer coefficients: coefficient 0 is the        *)
(* ordinary part, coefficient 1 the multiple of 1e-15, and so on.  Sums    *)
(* and products are exact; floating-point rounding is not modelled.  A     *)
(* sum of two floats is zero exactly when the exact sum is zero, so the    *)
(* zero test of the stabilised denominator agrees with the float one.      *)
(* log, exp, non-integer roots and reciprocals stay symbolic terms.        *)
(***************************************************************************)
EXTENDS Integers, Sequences, FiniteSets, TLC

VARIABLES classes, cls, x, params, given, last

vars == <<classes, cls, x, params, given, last>>

(***************************************************************************)
(* Bounds of the model.                                                    *)
(***************************************************************************)
MaxLen == 1
XMax == 2
AMax == 2
BMax == 1

(***************************************************************************)
(* Exact arithmetic on polynomials in eps.                                 *)
(***************************************************************************)
\* <<c0, c1, c2, c3, c4>> stands for c0 + c1*eps + c2*eps^2 + c3*eps^3 + c4*eps^4;
\* the largest exponent of the catalog is 4 and an input has degree at most 1
PolyConst(k) == <<k, 0, 0, 0, 0>>

PolyEps(k) == <<0, k, 0, 0, 0>>

EPS == PolyEps(1)

Zero == PolyConst(0)

PolyAdd(p, q) == <<p[1] + q[1], p[2] + q[2], p[3] + q[3], p[4] + q[4], p[5] + q[5]>>

PolyScale(k, p) == <<k * p[1], k * p[2], k * p[3], k * p[4], k * p[5]>>

PolyMul(p, q) ==
  <<p[1] * q[1],
    p[1] * q[2] + p[2] * q[1],
    p[1] * q[3] + p[2] * q[2] + p[3] * q[1],
    p[1] * q[4] + p[2] * q[3] + p[3] * q[2] + p[4] * q[1],
    p[1] * q[5] + p[2] * q[4] + p[3] * q[3] + p[4] * q[2] + p[5] * q[1]>>

RECURSIVE PolyPow(_, _)
PolyPow(p, k) == IF k <= 0 THEN PolyConst(1) ELSE PolyMul(p, PolyPow(p, k - 1))

\* eps is positive and tiny: the lowest non-zero coefficient decides the sign
Sign(p) ==
  IF p = Zero THEN 0
  ELSE LET d == CHOOSE e \in 1..5 : p[e] # 0 /\ \A f \in 1..(e - 1) : p[f] = 0
       IN IF p[d] > 0 THEN 1 ELSE -1

IsInteger(p) == \A d \in 2..5 : p[d] = 0

(***************************************************************************)
(* Results of the numpy kernels.                                           *)
(***************************************************************************)
Num(p) == [kind |-> "num", v |-> p]

NaN == [kind |-> "nan", v |-> Zero]

PosInf == [kind |-> "inf", v |-> Zero]

NegInf == [kind |-> "-inf", v |-> Zero]

Term(k, p) == [kind |-> k, v |-> p]

isfinite(r) == r.kind \notin {"nan", "inf", "-inf"}

\* a * x + b
Linear(a, xk, b) == PolyAdd(PolyScale(a, xk), PolyConst(b))

Whole(k) == [num |-> k, den |-> 1]

Half == [num |-> 1, den |-> 2]

Negate(n) == [num |-> 0 - n.num, den |-> n.den]

Magnitude(k) == IF k < 0 THEN 0 - k ELSE k

np_power(p, n) ==
  IF n.den = 1 /\ n.num >= 0 THEN Num(PolyPow(p, n.num))
  ELSE IF n = Half
    THEN IF Sign(p) < 0 THEN NaN
         ELSE IF IsInteger(p) /\ \E r \in 0..Magnitude(p[1]) : r * r = p[1]
           THEN Num(PolyConst(CHOOSE r \in 0..Magnitude(p[1]) : r * r = p[1]))
           ELSE Term("sqrt", p)
  ELSE Term("pow", p)

np_abs(p) == IF Sign(p) < 0 THEN Num(PolyScale(-1, p)) ELSE Num(p)

np_log(base, p) ==
  IF Sign(p) < 0 THEN NaN
  ELSE IF Sign(p) = 0 THEN NegInf
  ELSE Term(base, p)

np_exp(p) == Term("exp", p)

\* 1 / (r + 1e-15)
Reciprocal(r) ==
  IF r.kind = "num"
    THEN IF PolyAdd(r.v, EPS) = Zero THEN PosInf
         ELSE Term("recip", PolyAdd(r.v, EPS))
  ELSE IF r.kind = "nan" THEN NaN
  ELSE Term("recip_sym", r.v)

PowerN == 1

PowerCall_BaseN(n, a, xk, b) == np_power(Linear(a, xk, b), Whole(PowerN))

\* _Power.__call__ on one element
PowerCall(n, a, xk, b) ==
  IF n.num > 0
    THEN np_power(Linear(a, xk, b), n)
    ELSE Reciprocal(np_power(Linear(a, xk, b), Negate(n)))

(***************************************************************************)
(* The classes: what each class body assigns, and its base class.          *)
(***************************************************************************)
Variants == {"Abs", "Loge", "Log2", "Log10", "Exp",
             "Power2", "Power3", "Power4", "Sqrt", "Inv", "InvPower2"}

ClassNames == Variants \cup {"BaseTransformer", "_Power"}

DEFAULT_TRANSFORM == <<"Loge", "Exp", "Power2", "Sqrt", "Inv">>

KernelSig == <<"self", "x", "a", "b">>

Method(k, s) == [kernel |-> k, sig |-> s]

ClassBody(c) ==
  CASE c = "BaseTransformer" ->
         [base |-> "object", complexity |-> "None",
          call |-> Method("NotImplementedError", <<"self", "x">>)]
    [] c = "Abs"   -> [base |-> "BaseTransformer", complexity |-> 50,
                       call |-> Method("abs", KernelSig)]
    [] c = "Loge"  -> [base |-> "BaseTransformer", complexity |-> 26,
                       call |-> Method("loge", KernelSig)]
    [] c = "Log2"  -> [base |-> "BaseTransformer", complexity |-> 25,
                       call |-> Method("log2", KernelSig)]
    [] c = "Log10" -> [base |-> "BaseTransformer", complexity |-> 35,
                       call |-> Method("log10", KernelSig)]
    [] c = "Exp"   -> [base |-> "BaseTransformer", complexity |-> 40,
                       call |-> Method("exp", KernelSig)]
    [] c = "_Power" -> [base |-> "BaseTransformer", n |-> Whole(PowerN),
                        complexity |-> PowerN * 30,
                        call |-> Method("power", KernelSig)]
    [] c = "Power2" -> [base |-> "_Power", n |-> Whole(2)]
    [] c = "Power3" -> [base |-> "_Power", n |-> Whole(3)]
    [] c = "Power4" -> [base |-> "_Power", n |-> Whole(4)]
    [] c = "Sqrt"   -> [base |-> "_Power", n |-> Half, complexity |-> 33]
    [] c = "Inv"    -> [base |-> "_Power", n |-> Whole(-1), complexity |-> 37]
    [] c = "InvPower2" -> [base |-> "_Power", n |-> Whole(-2), complexity |-> 67]

\* attribute lookup along the method resolution order
RECURSIVE GetAttr(_, _, _)
GetAttr(K, c, attr) ==
  IF attr \in DOMAIN K[c] THEN K[c][attr] ELSE GetAttr(K, K[c].base, attr)

(***************************************************************************)
(* Parameter mappings and optional values.                                 *)
(***************************************************************************)
EmptyMap == [k \in {} |-> 0]

None == [isNone |-> TRUE, val |-> EmptyMap]

Some(m) == [isNone |-> FALSE, val |-> m]

ValidMaps == {[a |-> av, b |-> bv] : av \in 1..AMax, bv \in 0..BMax}

MalformedMaps == {EmptyMap, [a |-> 1], [a |-> 1, b |-> 0, c |-> 1]}

Maps == ValidMaps \cup MalformedMaps

Range(s) == {s[k] : k \in 1..Len(s)}

(***************************************************************************)
(* Calling a bound method with x positional and the mapping as keywords.   *)
(***************************************************************************)
\* inspect.signature of the bound method: self is dropped
signature(K, c) == Tail(GetAttr(K, c, "call").sig)

CallBinds_IgnoreExtras(sig, kw) == Range(Tail(sig)) \subseteq DOMAIN kw

\* Python's argument binding: x is taken positionally, every other declared
\* name must be given exactly once by keyword, and no other keyword is allowed
CallBinds(sig, kw) ==
  /\ DOMAIN kw \subseteq Range(Tail(sig))
  /\ Range(Tail(sig)) \subseteq DOMAIN kw

\* the body of __call__ on one element, with self.n read through the class
KernelCall(K, c, xk, a, b) ==
  LET kernel == GetAttr(K, c, "call").kernel IN
  CASE kernel = "abs"   -> np_abs(Linear(a, xk, b))
    [] kernel = "loge"  -> np_log("loge", Linear(a, xk, b))
    [] kernel = "log2"  -> np_log("log2", Linear(a, xk, b))
    [] kernel = "log10" -> np_log("log10", Linear(a, xk, b))
    [] kernel = "exp"   -> np_exp(Linear(a, xk, b))
    [] kernel = "power" -> PowerCall(GetAttr(K, c, "n"), a, xk, b)

Raised(e) == [status |-> e, y |-> <<>>]

Returned(ys) == [status |-> "ok", y |-> ys]

\* self.__call__(x, **kw): the kernel applied elementwise
call(K, c, xs, kw) ==
  IF ~CallBinds(signature(K, c), kw) THEN Raised("TypeError")
  ELSE Returned([k \in 1..Len(xs) |-> KernelCall(K, c, xs[k], kw.a, kw.b)])

(***************************************************************************)
(* The contract's operations as functions of the instance's state.         *)
(***************************************************************************)
get_params_Unfiltered(K, c) == signature(K, c)

get_params(K, c) == SelectSeq(signature(K, c), LAMBDA k : k # "x")

\* np.isfinite(x).all(); the series of this model hold finite numbers only
validate_input(xs) == \A k \in 1..Len(xs) : isfinite(Num(xs[k]))

set_params_FirstWins(old, p, kwargs) ==
  IF ~old.isNone THEN old ELSE IF ~p.isNone THEN p ELSE Some(kwargs)

set_params_KnownNames(old, p, kwargs) ==
  LET m == IF ~p.isNone THEN p.val ELSE kwargs
  IN Some([k \in DOMAIN m \cap {"a", "b"} |-> m[k]])

set_params_Falsy(old, p, kwargs) ==
  IF ~p.isNone /\ p.val # EmptyMap THEN p
  ELSE IF kwargs # EmptyMap THEN Some(kwargs) ELSE None

\* the value set_params assigns to self.params
set_params(old, p, kwargs) == IF ~p.isNone THEN p ELSE Some(kwargs)

transform_NoCheck(K, c, ps, xs) == call(K, c, xs, ps.val)

transform(K, c, ps, xs) ==
  IF ps.isNone THEN Raised("ValueError") ELSE call(K, c, xs, ps.val)

StoreShared(f, i, v) == [j \in DOMAIN f |-> v]

\* assignment to an attribute of the instance i
Store(f, i, v) == [f EXCEPT ![i] = v]

(***************************************************************************)
(* Inputs.                                                                 *)
(***************************************************************************)
XInts == {PolyConst(k) : k \in (0 - XMax)..XMax}

IntSeries == UNION {[1..n -> XInts] : n \in 0..MaxLen}

\* the series around the cancellation point of the stabilised denominator
EpsSeries == {<<PolyEps(-1)>>, <<PolyEps(1)>>}

ScenarioSeries == {<<PolyConst(-2), PolyConst(0), PolyConst(2)>>,
                   <<PolyConst(0), PolyConst(1), PolyConst(2)>>}

Series == IntSeries \cup EpsSeries \cup ScenarioSeries

\* set_params(mapping) or set_params(**mapping); set_params() is <<None, EmptyMap>>
SetForms == {<<Some(m), EmptyMap>> : m \in Maps} \cup {<<None, m>> : m \in Maps}

\* the mapping the caller supplied, in whichever form the call used
Supplied(p, kwargs) ==
  CHOOSE m \in Maps : \/ p = Some(m) /\ kwargs = EmptyMap
                      \/ p = None /\ kwargs = m

Insts == DOMAIN cls

NoNames == <<>>

Ret(op, p, kw, out, names, flag, score) ==
  [op |-> op, arg |-> p, kw |-> kw, status |-> out.status, y |-> out.y,
   names |-> names, flag |-> flag, score |-> score]

Plain(op) == Ret(op, None, EmptyMap, Returned(<<>>), NoNames, FALSE, 0)

(***************************************************************************)
(* State: the class objects, and per instance its class, the series its    *)
(* caller holds, self.params, and the outcome of the last call on it.      *)
(* given is a history variable: the mapping of the most recent set_params. *)
(***************************************************************************)
InitOf(ids, kinds, inputs) ==
  /\ classes = [c \in ClassNames |-> ClassBody(c)]
  /\ cls \in [ids -> kinds]
  /\ x \in [ids -> inputs]
  /\ params = [i \in ids |-> None]
  /\ given = [i \in ids |-> None]
  /\ last = [i \in ids |-> Plain("__init__")]

Init == InitOf({1}, Variants, Series)

SetParamsWith(i, p, kwargs) ==
  /\ params' = Store(params, i, set_params(params[i], p, kwargs))
  /\ given' = [given EXCEPT ![i] = Some(Supplied(p, kwargs))]
  /\ last' = [last EXCEPT ![i] =
                Ret("set_params", p, kwargs, Returned(<<>>), NoNames, FALSE, 0)]
  /\ UNCHANGED <<classes, cls, x>>

SetParams(i) == \E f \in SetForms : SetParamsWith(i, f[1], f[2])

Transform(i) ==
  /\ last' = [last EXCEPT ![i] =
                Ret("transform", None, EmptyMap,
                    transform(classes, cls[i], params[i], x[i]),
                    NoNames, FALSE, 0)]
  /\ UNCHANGED <<classes, cls, x, params, given>>

Apply(i) ==
  \E kw \in Maps :
    /\ last' = [last EXCEPT ![i] =
                  Ret("apply", None, kw, call(classes, cls[i], x[i], kw),
                      NoNames, FALSE, 0)]
    /\ UNCHANGED <<classes, cls, x, params, given>>

GetParams(i) ==
  /\ last' = [last EXCEPT ![i] =
                Ret("get_params", None, EmptyMap, Returned(<<>>),
                    get_params(classes, cls[i]), FALSE, 0)]
  /\ UNCHANGED <<classes, cls, x, params, given>>

ValidateInput(i) ==
  /\ last' = [last EXCEPT ![i] =
                Ret("validate_input", None, EmptyMap, Returned(<<>>),
                    NoNames, validate_input(x[i]), 0)]
  /\ UNCHANGED <<classes, cls, x, params, given>>

ReadComplexity(i) ==
  /\ last' = [last EXCEPT ![i] =
                Ret("complexity", None, EmptyMap, Returned(<<>>),
                    NoNames, FALSE, GetAttr(classes, cls[i], "complexity"))]
  /\ UNCHANGED <<classes, cls, x, params, given>>

Next ==
  \/ \E i \in Insts : SetParams(i)
  \/ \E i \in Insts : Transform(i)
  \/ \E i \in Insts : Apply(i)
  \/ \E i \in Insts : GetParams(i)
  \/ \E i \in Insts : ValidateInput(i)
  \/ \E i \in Insts : ReadComplexity(i)

Spec == Init /\ [][Next]_vars

(***************************************************************************)
(* Two fitting tasks, each with its own instance, interleaved.             *)
(***************************************************************************)
TaskIds == {1, 2}

TaskSeries == {<<PolyConst(k)>> : k \in 1..XMax}

InitTasks == InitOf(TaskIds, Range(DEFAULT_TRANSFORM), TaskSeries)

TaskSetParams(i) == \E m \in ValidMaps : SetParamsWith(i, Some(m), EmptyMap)

TaskTransform(i) == Transform(i)

NextTasks ==
  \/ \E i \in Insts : TaskSetParams(i)
  \/ \E i \in Insts : TaskTransform(i)

SpecTasks == InitTasks /\ [][NextTasks]_vars

(***************************************************************************)
(* Properties.                                                             *)
(***************************************************************************)
ParamNames(i) == Range(get_params(classes, cls[i]))

Outcome(i) == [status |-> last[i].status, y |-> last[i].y]

NeverSet(i) == given[i].isNone

PowerFamily == {"Power2", "Power3", "Power4", "Sqrt", "Inv", "InvPower2"}

Unit == [a |-> 1, b |-> 0]

\* C1: a transform on an instance on which set_params was never called fails
\* with ValueError, returns no series and leaves params unset, whatever the
\* variant and the input series.
C1_TransformBeforeSetParams ==
  \A i \in Insts :
    (last[i].op = "transform" /\ NeverSet(i))
      => /\ last[i].status = "ValueError"
         /\ last[i].y = <<>>
         /\ params[i] = None

C1_Witness ==
  \E i \in Insts :
    /\ last[i].op = "transform"
    /\ NeverSet(i)
    /\ last[i].status = "ValueError"
    /\ cls[i] = "InvPower2"
    /\ Len(x[i]) > 0

\* C2 as stated: params is unset or a mapping whose key set is exactly the
\* names get_params() returns, whatever set_params was called with.
C2_ExactNamesAlways ==
  \A i \in Insts :
    params[i].isNone \/ DOMAIN params[i].val = ParamNames(i)

\* C2 amended: params is unset exactly while set_params was never called, and
\* otherwise is a mapping with the key set of the mapping supplied to the most
\* recent set_params; that key set is the names of get_params() exactly when
\* the caller supplied exactly a and b.
C2_KeysAsSupplied ==
  \A i \in Insts :
    IF NeverSet(i) THEN params[i].isNone
    ELSE /\ ~params[i].isNone
         /\ DOMAIN params[i].val = DOMAIN given[i].val
         /\ (DOMAIN params[i].val = ParamNames(i))
              <=> (DOMAIN given[i].val = {"a", "b"})

C2_Witness ==
  \E i \in Insts :
    /\ last[i].op = "set_params"
    /\ last[i].arg = Some([a |-> 1, b |-> 0, c |-> 1])
    /\ DOMAIN params[i].val = {"a", "b", "c"}
    /\ ParamNames(i) = {"a", "b"}

\* the complexity table of the power family as declared
DeclaredComplexity(c) ==
  CASE c = "Power2" -> 60
    [] c = "Power3" -> 90
    [] c = "Power4" -> 120
    [] c = "Sqrt" -> 33
    [] c = "Inv" -> 37
    [] c = "InvPower2" -> 67

\* C3: the class-level complexity of every power-family entry equals the
\* declared table (Power2 60, Power3 90, Power4 120, Sqrt 33, Inv 37,
\* InvPower2 67), both as stored on the class and as read by a caller, and no
\* operation changes the class attributes.
C3_DeclaredComplexity ==
  /\ classes = [c \in ClassNames |-> ClassBody(c)]
  /\ \A i \in Insts :
       (cls[i] \in PowerFamily /\ last[i].op = "complexity")
         => last[i].score = DeclaredComplexity(cls[i])

\* C4: a transform that follows at least one set_params returns exactly what
\* apply returns on the same series with the mapping of the most recent
\* set_params, and the stored params are that mapping after any sequence of
\* calls.
C4_TransformUsesLatestParams ==
  \A i \in Insts :
    ~NeverSet(i)
      => /\ params[i] = Some(given[i].val)
         /\ last[i].op = "transform"
              => Outcome(i) = call(classes, cls[i], x[i], given[i].val)

C4_Witness ==
  \E i \in Insts :
    /\ last[i].op = "transform"
    /\ last[i].status = "ok"
    /\ given[i].val = [a |-> 2, b |-> 1]
    /\ Len(last[i].y) > 0
    /\ Outcome(i) # call(classes, cls[i], x[i], Unit)

\* C5: a mapping whose key set is not exactly {a, b} ends in TypeError (the
\* argument mismatch) at the call that uses it, apply directly or the
\* transform that follows the set_params that stored it; it is never the
\* ValueError of the unset state and never a series.
C5_MalformedMappingIsTypeError ==
  \A i \in Insts :
    /\ (last[i].op = "apply" /\ DOMAIN last[i].kw # {"a", "b"})
         => last[i].status = "TypeError" /\ last[i].y = <<>>
    /\ (last[i].op = "transform" /\ ~NeverSet(i)
          /\ DOMAIN given[i].val # {"a", "b"})
         => last[i].status = "TypeError" /\ last[i].y = <<>>

C5_Witness ==
  \E i \in Insts :
    /\ last[i].op = "transform"
    /\ given[i] = Some([a |-> 1])
    /\ last[i].status = "TypeError"

\* C6: Inv.apply(x, a=1, b=0) returns a series of finite values for every
\* finite series x, x = 0 and x = -1e-15 included.
C6_InvFinite ==
  \A i \in Insts :
    (cls[i] = "Inv" /\ last[i].op = "apply" /\ last[i].kw = Unit)
      => /\ last[i].status = "ok"
         /\ \A k \in 1..Len(last[i].y) : isfinite(last[i].y[k])

RECURSIVE IntPower(_, _)
IntPower(v, k) == IF k = 0 THEN 1 ELSE v * IntPower(v, k - 1)

\* the power family's exponents as declared
DeclaredN(c) ==
  CASE c = "Power2" -> 2
    [] c = "Power3" -> 3
    [] c = "Power4" -> 4
    [] c = "Inv" -> -1
    [] c = "InvPower2" -> -2

ExpectedPower(c, v) ==
  IF c = "Sqrt"
    THEN IF v < 0 THEN NaN
         ELSE IF \E r \in 0..v : r * r = v
           THEN Num(PolyConst(CHOOSE r \in 0..v : r * r = v))
           ELSE Term("sqrt", PolyConst(v))
  ELSE IF DeclaredN(c) > 0
    THEN Num(PolyConst(IntPower(v, DeclaredN(c))))
    ELSE Term("recip", <<IntPower(v, 0 - DeclaredN(c)), 1, 0, 0, 0>>)

\* C7: on an integer series and integer a, b, apply of a power-family entry
\* returns a series of the input's length whose elements are (a*x+b)^n for
\* n > 0 and 1/((a*x+b)^(-n) + eps) for n <= 0, with the entry's own n (for
\* Sqrt: the root of a perfect square, NaN below zero); Power2 with a=1, b=0
\* squares, and Power3 with a=1, b=0 maps [-2, 0, 2] to [-8, 0, 8].
C7_PowerFamilyKernel ==
  \A i \in Insts :
    (/\ cls[i] \in PowerFamily
     /\ last[i].op = "apply"
     /\ DOMAIN last[i].kw = {"a", "b"}
     /\ \A k \in 1..Len(x[i]) : IsInteger(x[i][k]))
      => /\ last[i].status = "ok"
         /\ Len(last[i].y) = Len(x[i])
         /\ \A k \in 1..Len(x[i]) :
              last[i].y[k] =
                ExpectedPower(cls[i], last[i].kw.a * x[i][k][1] + last[i].kw.b)
         /\ (cls[i] = "Power2" /\ last[i].kw = Unit)
              => \A k \in 1..Len(x[i]) :
                   last[i].y[k] = Num(PolyConst(x[i][k][1] * x[i][k][1]))
         /\ (/\ cls[i] = "Power3"
             /\ last[i].kw = Unit
             /\ x[i] = <<PolyConst(-2), PolyConst(0), PolyConst(2)>>)
              => last[i].y = <<Num(PolyConst(-8)), Num(PolyConst(0)),
                               Num(PolyConst(8))>>

C7_Witness ==
  \E i \in Insts :
    /\ cls[i] = "Power3"
    /\ last[i].op = "apply"
    /\ last[i].kw = Unit
    /\ x[i] = <<PolyConst(-2), PolyConst(0), PolyConst(2)>>
    /\ last[i].y = <<Num(PolyConst(-8)), Num(PolyConst(0)), Num(PolyConst(8))>>

\* C8: get_params() is the ordered list <<"a", "b">> for every variant, those
\* of the default catalog included, in every state of the instance.
C8_GetParamsIsAB ==
  /\ Range(DEFAULT_TRANSFORM) \subseteq Variants
  /\ \A i \in Insts :
       /\ get_params(classes, cls[i]) = <<"a", "b">>
       /\ last[i].op = "get_params" => last[i].names = <<"a", "b">>

C8_Witness ==
  \E i \in Insts :
    /\ last[i].op = "get_params"
    /\ last[i].names = <<"a", "b">>
    /\ cls[i] = "Inv"
    /\ ~params[i].isNone

\* the outcome of task i run alone: a fresh instance, its set_params (if it
\* made one), then its transform
Alone(i) ==
  transform([c \in ClassNames |-> ClassBody(c)], cls[i],
            IF NeverSet(i) THEN None ELSE set_params(None, given[i], EmptyMap),
            x[i])

\* C9: with one instance per task, in every interleaving each task's
\* transform returns what the task gets when run alone, each instance holds
\* the parameters its own task set, and the class attributes stay as the
\* class bodies set them.
C9_TasksAreIndependent ==
  /\ classes = [c \in ClassNames |-> ClassBody(c)]
  /\ \A i \in Insts :
       /\ params[i] = given[i]
       /\ last[i].op = "transform" => Outcome(i) = Alone(i)

C9_Witness ==
  \E i \in Insts, j \in Insts :
    /\ i # j
    /\ cls[i] = cls[j]
    /\ x[i] = x[j]
    /\ last[i].op = "transform" /\ last[i].status = "ok"
    /\ last[j].op = "transform" /\ last[j].status = "ok"
    /\ given[i] # given[j]
    /\ Outcome(i) # Outcome(j)

\* C10: once set_params has been called, in any form, params is set (to a
\* mapping, possibly empty) in every later state, and no later transform
\* fails with ValueError.
C10_SetStaysSet ==
  \A i \in Insts :
    ~NeverSet(i)
      => /\ ~params[i].isNone
         /\ last[i].op = "transform" => last[i].status # "ValueError"

C10_Witness ==
  \E i \in Insts :
    /\ given[i] = Some(EmptyMap)
    /\ params[i] = Some(EmptyMap)
    /\ last[i].op = "transform"
    /\ last[i].status = "TypeError"

====
